---- MODULE Spec2Model ----
(***************************************************************************)
(* State-machine model of weight_tracker.py: the sqlite tables `weights`   *)
(* and `preferences`, and one run of main() as a sequence of steps.        *)
(*                                                                         *)
(* Text values (dates, range tags) are sequences of character codes, so    *)
(* that sqlite's TEXT comparison, str.startswith, str.split and            *)
(* datetime.strptime are computed on the characters.  An absent (None)     *)
(* argument is the empty sequence: every test the program makes on an      *)
(* optional argument is a truthiness test, which None and '' both fail.    *)
(* Weights are integers standing for the floats the program stores.        *)
(***************************************************************************)
EXTENDS Integers, Sequences, FiniteSets, TLC

\* ------------------------------------------------------------------ text

\* Character at index i of s, or 0 past the end.
At(s, i) == IF i \in 1..Len(s) THEN s[i] ELSE 0

\* '0'..'9' are codes 48..57.
IsDigit(c) == c \in 48..57

DigitVal(c) == c - 48

\* sqlite BINARY collation on TEXT: memcmp on the common prefix, then length.
StrLess(a, b) ==
    \/ \E i \in 1..Len(a) :
          /\ i <= Len(b)
          /\ \A j \in 1..(i - 1) : a[j] = b[j]
          /\ a[i] < b[i]
    \/ /\ Len(a) < Len(b)
       /\ \A j \in 1..Len(a) : a[j] = b[j]

\* str.startswith
StartsWith(s, p) ==
    /\ Len(p) <= Len(s)
    /\ \A i \in 1..Len(p) : s[i] = p[i]

\* s.split(':')[1]: the text between the first ':' (code 58) and the next
\* one, or the end of s.  Only used on text that holds a ':'.
SplitColon1(s) ==
    LET first == CHOOSE i \in 1..Len(s) :
                    s[i] = 58 /\ \A j \in 1..(i - 1) : s[j] # 58
        later == {i \in (first + 1)..Len(s) : s[i] = 58}
        stop  == IF later = {} THEN Len(s) + 1
                 ELSE CHOOSE i \in later : \A j \in later : i <= j
    IN SubSeq(s, first + 1, stop - 1)

\* ----------------------------------------------------------------- dates

\* A datetime.date is a record [year, month, day].
MkDate(y, m, d) == [year |-> y, month |-> m, day |-> d]

IsLeap(y) == (y % 4 = 0) /\ ((y % 100 # 0) \/ (y % 400 = 0))

DaysInMonth(y, m) ==
    IF m = 2 THEN (IF IsLeap(y) THEN 29 ELSE 28)
    ELSE IF m \in {4, 6, 9, 11} THEN 30 ELSE 31

DaysBeforeYear(y) ==
    (y - 1) * 365 + ((y - 1) \div 4) - ((y - 1) \div 100) + ((y - 1) \div 400)

RECURSIVE DaysBeforeMonth(_, _)
DaysBeforeMonth(y, m) ==
    IF m = 1 THEN 0 ELSE DaysBeforeMonth(y, m - 1) + DaysInMonth(y, m - 1)

\* date.toordinal(): 1 for 0001-01-01.
ToOrdinal(dt) == DaysBeforeYear(dt.year) + DaysBeforeMonth(dt.year, dt.month) + dt.day

\* date.fromordinal(n), the inverse of toordinal.
FromOrdinal(n) ==
    LET y == CHOOSE yy \in (((n - 1) \div 366) + 1)..(((n - 1) \div 365) + 1) :
                 DaysBeforeYear(yy) < n /\ n <= DaysBeforeYear(yy + 1)
        r == n - DaysBeforeYear(y)
        m == CHOOSE mm \in 1..12 :
                 DaysBeforeMonth(y, mm) < r
                 /\ r <= DaysBeforeMonth(y, mm) + DaysInMonth(y, mm)
    IN MkDate(y, m, r - DaysBeforeMonth(y, m))

\* date - datetime.timedelta(days=n)
MinusDays(dt, n) == FromOrdinal(ToOrdinal(dt) - n)

Pad2(n) == <<48 + (n \div 10), 48 + (n % 10)>>

Pad4(n) ==
    <<48 + (n \div 1000), 48 + ((n \div 100) % 10),
      48 + ((n \div 10) % 10), 48 + (n % 10)>>

\* date.isoformat(): zero-padded YYYY-MM-DD ('-' is code 45).  It is also
\* what sqlite3's default adapter binds for a datetime.date parameter.
IsoFormat(dt) == Pad4(dt.year) \o <<45>> \o Pad2(dt.month) \o <<45>> \o Pad2(dt.day)

\* Length matched by strptime's %m pattern 1[0-2]|0[1-9]|[1-9] at index p
\* of s, the '-' of the format following it; 0 when nothing matches.
MonthLen(s, p) ==
    IF At(s, p) = 49 /\ At(s, p + 1) \in 48..50 /\ At(s, p + 2) = 45 THEN 2
    ELSE IF At(s, p) = 48 /\ At(s, p + 1) \in 49..57 /\ At(s, p + 2) = 45 THEN 2
    ELSE IF At(s, p) \in 49..57 /\ At(s, p + 1) = 45 THEN 1
    ELSE 0

\* Length matched by strptime's %d pattern 3[0-1]|[1-2]\d|0[1-9]|[1-9]| [1-9]
\* at index p of s (first alternative that matches); 0 when nothing matches.
DayLen(s, p) ==
    IF At(s, p) = 51 /\ At(s, p + 1) \in 48..49 THEN 2
    ELSE IF At(s, p) \in 49..50 /\ IsDigit(At(s, p + 1)) THEN 2
    ELSE IF At(s, p) = 48 /\ At(s, p + 1) \in 49..57 THEN 2
    ELSE IF At(s, p) \in 49..57 THEN 1
    ELSE IF At(s, p) = 32 /\ At(s, p + 1) \in 49..57 THEN 2
    ELSE 0

\* The number a matched field denotes (int() of its text; a leading blank
\* of the day field is skipped).
RECURSIVE FieldVal(_, _, _)
FieldVal(s, p, n) ==
    IF n = 0 THEN 0
    ELSE 10 * FieldVal(s, p, n - 1)
         + (IF IsDigit(s[p + n - 1]) THEN DigitVal(s[p + n - 1]) ELSE 0)

\* datetime.datetime.strptime(s, '%Y-%m-%d').date(): <<date>>, or <<>> when
\* it raises ValueError (no match, unconverted data, year 0, day out of range
\* for the month).
Strptime(s) ==
    LET okY  == (\A i \in 1..4 : IsDigit(At(s, i))) /\ At(s, 5) = 45
        ml   == MonthLen(s, 6)
        dp   == 6 + ml + 1
        dl   == DayLen(s, dp)
        y    == FieldVal(s, 1, 4)
        m    == FieldVal(s, 6, ml)
        d    == FieldVal(s, dp, dl)
    IN IF ~okY \/ ml = 0 \/ dl = 0 THEN <<>>
       ELSE IF dp + dl - 1 # Len(s) THEN <<>>
       ELSE IF y < 1 \/ d > DaysInMonth(y, m) THEN <<>>
       ELSE <<MkDate(y, m, d)>>

\* ------------------------------------------------------------ the tables

\* A table is its set of rows <<key, value>>.

\* Variant of InsertOrReplace: the row is added and a row already under the
\* key stays (a table without its PRIMARY KEY).
InsertKeepingOld(table, key, value) ==
    table \cup {<<key, value>>}

\* Variant of InsertOrReplace: every row is deleted before the new row is
\* inserted (a DELETE without its WHERE clause).
InsertAlone(table, key, value) ==
    {<<key, value>>}

\* INSERT OR REPLACE under PRIMARY KEY(key): the conflicting row is deleted,
\* then the new row is inserted.
InsertOrReplace(table, key, value) ==
    {r \in table : r[1] # key} \cup {<<key, value>>}

\* ORDER BY date: the rows as a sequence, ascending in the TEXT order.
RECURSIVE OrderByDate(_)
OrderByDate(rows) ==
    IF rows = {} THEN <<>>
    ELSE LET r == CHOOSE x \in rows : \A z \in rows : ~StrLess(z[1], x[1])
         IN <<r>> \o OrderByDate(rows \ {r})

\* SELECT date, weight FROM weights [WHERE date >= ?] ORDER BY date.
\* start_date is <<>> (None) or <<date>>; a date is bound as its isoformat.
SelectWeights(table, start_date) ==
    IF Len(start_date) > 0
    THEN OrderByDate({r \in table : ~StrLess(r[1], IsoFormat(start_date[1]))})
    ELSE OrderByDate(table)

\* get_weights: the series of <<date, weight>> of the selected rows, in
\* order; raised when strptime rejects the date text of a selected row.
GetWeights(table, start_date) ==
    LET results == SelectWeights(table, start_date)
    IN IF \E i \in 1..Len(results) : Len(Strptime(results[i][1])) = 0
       THEN [raised |-> TRUE, series |-> <<>>]
       ELSE [raised |-> FALSE,
             series |-> [i \in 1..Len(results) |->
                           <<Strptime(results[i][1])[1], results[i][2]>>]]

\* get_preference(key, default)
GetPreference(table, key, default) ==
    IF \E r \in table : r[1] = key
    THEN (CHOOSE r \in table : r[1] = key)[2]
    ELSE default

\* Variant of SetPreference with INSERT OR IGNORE: a key that has a value
\* keeps it.
SetPreferenceIgnoring(table, key, value) ==
    IF \E r \in table : r[1] = key THEN table ELSE table \cup {<<key, value>>}

\* set_preference(key, value)
SetPreference(table, key, value) == InsertOrReplace(table, key, value)

\* log_weight(date, weight)
LogWeight(table, date, weight) == InsertOrReplace(table, date, weight)

\* ------------------------------------------------------- the trend line

\* Fractions stand for the floats of the fit: [num, den], den > 0, reduced.
RECURSIVE Gcd(_, _)
Gcd(a, b) == IF b = 0 THEN a ELSE Gcd(b, a % b)

Abs(n) == IF n < 0 THEN -n ELSE n

Frac(n, d) ==
    LET g == Gcd(Abs(n), Abs(d))
        sg == IF d < 0 THEN -1 ELSE 1
    IN [num |-> sg * (n \div g), den |-> sg * (d \div g)]

RECURSIVE SumOver(_, _)
SumOver(f, n) == IF n = 0 THEN 0 ELSE SumOver(f, n - 1) + f[n]

\* The fit generate_graph makes on sample numbers 1..n in place of days.
TrendByIndex(s) ==
    LET n   == Len(s)
        y   == [i \in 1..n |-> s[i][2]]
        sx  == SumOver([i \in 1..n |-> i], n)
        sy  == SumOver(y, n)
        dx  == [i \in 1..n |-> n * i - sx]
        dy  == [i \in 1..n |-> n * y[i] - sy]
        sxy == SumOver([i \in 1..n |-> dx[i] * dy[i]], n)
        sxx == SumOver([i \in 1..n |-> dx[i] * dx[i]], n)
    IN [slope |-> IF sxx = 0 THEN Frac(0, 1) ELSE Frac(sxy, sxx),
        fitted |-> [i \in 1..n |->
                      IF sxx = 0 THEN Frac(sy, n)
                      ELSE Frac(sy * sxx + sxy * dx[i], n * sxx)],
        total_change |-> y[n] - y[1]]

\* The fit with the intercept left out of the fitted values: the line is
\* drawn through the mean day at height 0.
TrendCentred(s) ==
    LET n   == Len(s)
        x   == [i \in 1..n |-> ToOrdinal(s[i][1])]
        y   == [i \in 1..n |-> s[i][2]]
        sx  == SumOver(x, n)
        sy  == SumOver(y, n)
        dx  == [i \in 1..n |-> n * x[i] - sx]
        dy  == [i \in 1..n |-> n * y[i] - sy]
        sxy == SumOver([i \in 1..n |-> dx[i] * dy[i]], n)
        sxx == SumOver([i \in 1..n |-> dx[i] * dx[i]], n)
    IN [slope |-> IF sxx = 0 THEN Frac(0, 1) ELSE Frac(sxy, sxx),
        fitted |-> [i \in 1..n |->
                      IF sxx = 0 THEN Frac(0, 1)
                      ELSE Frac(sxy * dx[i], n * sxx)],
        total_change |-> y[n] - y[1]]

\* generate_graph, lines 65-75: the least-squares line of weight against
\* date.toordinal(), as LinearRegression fits it (on centred data, slope 0
\* when the days have no spread), its value at each date, and the raw
\* change last - first.  With n points, dx[i] = n * (x[i] - mean x).
Trend(s) ==
    LET n   == Len(s)
        x   == [i \in 1..n |-> ToOrdinal(s[i][1])]
        y   == [i \in 1..n |-> s[i][2]]
        sx  == SumOver(x, n)
        sy  == SumOver(y, n)
        dx  == [i \in 1..n |-> n * x[i] - sx]
        dy  == [i \in 1..n |-> n * y[i] - sy]
        sxy == SumOver([i \in 1..n |-> dx[i] * dy[i]], n)
        sxx == SumOver([i \in 1..n |-> dx[i] * dx[i]], n)
    IN [slope |-> IF sxx = 0 THEN Frac(0, 1) ELSE Frac(sxy, sxx),
        fitted |-> [i \in 1..n |->
                      IF sxx = 0 THEN Frac(sy, n)
                      ELSE Frac(sy * sxx + sxy * dx[i], n * sxx)],
        total_change |-> y[n] - y[1]]

\* ----------------------------------------------------------- the inputs

\* Number of runs of main() a behaviour holds.
MaxRuns == 2

\* Range tags: the choices of --range, and the prefix of a stored start date.
Tag1m == <<49, 109>>                      \* '1m'
Tag6m == <<54, 109>>                      \* '6m'
Tag1y == <<49, 121>>                      \* '1y'
TagAll == <<97, 108, 108>>                \* 'all'
FromPrefix == <<102, 114, 111, 109, 58>>  \* 'from:'

RangeChoices == {Tag1m, Tag6m, Tag1y, TagAll}

\* Date texts given to --date.
DateUnpadded == <<50, 48, 50, 52, 45, 50, 45, 57>>              \* '2024-2-9'
DateBlankDay == <<50, 48, 50, 52, 45, 48, 51, 45, 32, 53>>      \* '2024-03- 5'
DateNoSuchDay == <<50, 48, 50, 52, 45, 48, 50, 45, 51, 48>>     \* '2024-02-30'

DateArgs == {<<>>, DateUnpadded, DateBlankDay, DateNoSuchDay}

\* Date texts given to --from-date.
FromUnpadded == <<50, 48, 50, 52, 45, 51, 45, 49, 48>>          \* '2024-3-10'

FromArgs == {<<>>, FromUnpadded, DateNoSuchDay}

\* Weights given on the command line (absent is <<>>).
WeightArgs == {<<>>, <<0>>, <<-1>>, <<1>>}

\* The days on which main() runs.
Todays == {MkDate(2024, 3, 31)}

\* weights.prev_weights: the historical mapping, in insertion order.
prev_weights ==
    << <<IsoFormat(MkDate(2024, 1, 8)), 3>>,
       <<IsoFormat(MkDate(2024, 3, 31)), 2>> >>

\* The parsed command line, but for --date: main reads args.date at line 135
\* only, and the model draws it there.
Args ==
    [weight : WeightArgs, range : RangeChoices \cup {<<>>},
     from_date : FromArgs, set_default : BOOLEAN, import_history : BOOLEAN,
     graph_only : BOOLEAN]

NoArgs ==
    [weight |-> <<>>, range |-> <<>>, from_date |-> <<>>,
     set_default |-> FALSE, import_history |-> FALSE, graph_only |-> FALSE]

\* Python truthiness of the optional float args.weight.
Truthy(weight) == Len(weight) > 0 /\ weight[1] # 0

\* ------------------------------------------------------------- the state

VARIABLES
    weights,      \* table weights(date TEXT PRIMARY KEY, weight REAL)
    preferences,  \* table preferences(key TEXT PRIMARY KEY, value TEXT)
    pc,           \* where the current run of main() stands
    args,         \* the parsed command line of the current run
    today,        \* datetime.date.today() during the current run
    date,         \* main's local `date` (<<>> until a weight is logged)
    graph_range,  \* main's local `graph_range`
    start_date,   \* main's local `start_date` (<<>> is None)
    series,       \* the (dates, weights) get_weights returned, zipped
    graphed,      \* <<series>> once generate_graph was called with it
    trend,        \* <<result>> of the fit generate_graph made, else <<>>
    ret,          \* <<the last set_/get_preference call on the module>>
    latest,       \* key |-> the value of the latest set_preference for it
    exc,          \* where the run raised an uncaught ValueError, or "none"
    out,          \* what the run or call printed: <<message, number>> pairs
    written,      \* history: date text |-> the weights written under it, in order
    before,       \* history: the two tables as the run or call found them
    runs          \* number of runs and direct calls started

vars == <<weights, preferences, pc, args, today, date, graph_range,
          start_date, series, graphed, trend, ret, latest, exc, out, written,
          before, runs>>

locals == <<date, graph_range, start_date, series, graphed, trend, exc, out>>

NoTables == [weights |-> {}, preferences |-> {}]

Init ==
    /\ weights = {}
    /\ preferences = {}
    /\ pc = "idle"
    /\ args = NoArgs
    /\ today \in Todays
    /\ date = <<>>
    /\ graph_range = <<>>
    /\ start_date = <<>>
    /\ series = <<>>
    /\ graphed = <<>>
    /\ trend = <<>>
    /\ ret = <<>>
    /\ latest = <<>>
    /\ exc = "none"
    /\ out = <<>>
    /\ written = <<>>
    /\ before = NoTables
    /\ runs = 0

\* The history of writes after writing value under key.
Latest(map, key, value) ==
    [k \in DOMAIN map \cup {key} |-> IF k = key THEN value ELSE map[k]]

Written(hist, key, value) ==
    [k \in DOMAIN hist \cup {key} |->
        IF k = key
        THEN (IF k \in DOMAIN hist THEN Append(hist[k], value) ELSE <<value>>)
        ELSE hist[k]]

\* ------------------------------------------------------------------ main

\* main, lines 117-128: the command line is parsed and init_db() runs; its
\* CREATE TABLE IF NOT EXISTS statements leave existing tables as they are.
ParseArgs(a, t) ==
    /\ pc = "idle"
    /\ runs < MaxRuns
    /\ runs' = runs + 1
    /\ args' = a
    /\ today' = t
    /\ pc' = "dispatch"
    /\ date' = <<>>
    /\ graph_range' = <<>>
    /\ start_date' = <<>>
    /\ series' = <<>>
    /\ graphed' = <<>>
    /\ trend' = <<>>
    /\ exc' = "none"
    /\ out' = <<>>
    /\ before' = [weights |-> weights, preferences |-> preferences]
    /\ UNCHANGED <<weights, preferences, written, ret, latest>>

\* import_historical_data: one INSERT OR REPLACE per entry of prev_weights.
\* The import with INSERT OR IGNORE: rows already stored keep their values.
RECURSIVE ImportRowsIgnoring(_, _)
ImportRowsIgnoring(table, n) ==
    IF n = 0 THEN table
    ELSE InsertKeepingOld(ImportRowsIgnoring(table, n - 1),
                          prev_weights[n][1], prev_weights[n][2])

\* import_historical_data, lines 110-111: the loop over prev_weights.
RECURSIVE ImportRows(_, _)
ImportRows(table, n) ==
    IF n = 0 THEN table
    ELSE InsertOrReplace(ImportRows(table, n - 1),
                         prev_weights[n][1], prev_weights[n][2])

RECURSIVE ImportHistoryOf(_, _)
ImportHistoryOf(hist, n) ==
    IF n = 0 THEN hist
    ELSE Written(ImportHistoryOf(hist, n - 1),
                 prev_weights[n][1], prev_weights[n][2])

\* Variant of ImportHistory without the return of line 132: after the
\* import the run goes on to resolve its range.
ImportHistoryGoingOn ==
    /\ pc = "dispatch"
    /\ args.import_history
    /\ weights' = ImportRows(weights, Len(prev_weights))
    /\ written' = ImportHistoryOf(written, Len(prev_weights))
    /\ out' = Append(out, <<"Imported", Len(prev_weights)>>)
    /\ pc' = "resolve"
    /\ UNCHANGED <<preferences, args, today, date, graph_range, start_date,
                   series, graphed, trend, exc, before, ret, latest, runs>>

\* main, lines 130-132: --import-history imports and returns.
ImportHistory ==
    /\ pc = "dispatch"
    /\ args.import_history
    /\ weights' = ImportRows(weights, Len(prev_weights))
    /\ written' = ImportHistoryOf(written, Len(prev_weights))
    /\ out' = Append(out, <<"Imported", Len(prev_weights)>>)
    /\ pc' = "exit"
    /\ UNCHANGED <<preferences, args, today, date, graph_range, start_date,
                   series, graphed, trend, exc, before, ret, latest, runs>>

\* main, line 134: the test that guards the write.
ShouldLog(a) == Truthy(a.weight) /\ ~a.graph_only

\* main, line 135: the date the weight is logged under.
LogDate(d, t) == IF Len(d) > 0 THEN d ELSE IsoFormat(t)

\* main, lines 134-137: the weight is logged under --date d, or today.
LogStep(d) ==
    /\ pc = "dispatch"
    /\ ~args.import_history
    /\ ShouldLog(args)
    /\ date' = LogDate(d, today)
    /\ weights' = LogWeight(weights, date', args.weight[1])
    /\ written' = Written(written, date', args.weight[1])
    /\ out' = Append(out, <<"Logged", args.weight[1]>>)
    /\ pc' = "resolve"
    /\ UNCHANGED <<preferences, args, today, graph_range, start_date,
                   series, graphed, trend, exc, before, ret, latest, runs>>

\* main, line 134, test false: nothing is logged.
SkipLog ==
    /\ pc = "dispatch"
    /\ ~args.import_history
    /\ ~ShouldLog(args)
    /\ pc' = "resolve"
    /\ UNCHANGED <<weights, preferences, args, today, written, before, ret,
                   latest, runs, locals>>

\* main, line 139.
GraphRange(a, prefs) ==
    IF Len(a.range) > 0 THEN a.range
    ELSE GetPreference(prefs, "default_range", TagAll)

\* Days subtracted for a relative tag (lines 149, 151, 153).
WindowDays(tag) ==
    IF tag = Tag1m THEN 30 ELSE IF tag = Tag6m THEN 180 ELSE 365

\* Variant of ResolveStart: a relative tag is looked at before the explicit
\* from_date.
ResolveStartTagFirst(a, tag, t) ==
    IF tag \in {Tag1m, Tag6m, Tag1y}
    THEN [raised |-> FALSE, start_date |-> <<MinusDays(t, WindowDays(tag))>>]
    ELSE IF Len(a.from_date) > 0
    THEN [raised |-> Len(Strptime(a.from_date)) = 0,
          start_date |-> Strptime(a.from_date)]
    ELSE IF StartsWith(tag, FromPrefix)
    THEN [raised |-> Len(Strptime(SplitColon1(tag))) = 0,
          start_date |-> Strptime(SplitColon1(tag))]
    ELSE [raised |-> FALSE, start_date |-> <<>>]

\* main, lines 141-155: [raised, start_date] for the given arguments, the
\* range tag in force and today's date.
ResolveStart(a, tag, t) ==
    IF Len(a.from_date) > 0
    THEN [raised |-> Len(Strptime(a.from_date)) = 0,
          start_date |-> Strptime(a.from_date)]
    ELSE IF StartsWith(tag, FromPrefix)
    THEN [raised |-> Len(Strptime(SplitColon1(tag))) = 0,
          start_date |-> Strptime(SplitColon1(tag))]
    ELSE IF tag \in {Tag1m, Tag6m, Tag1y}
    THEN [raised |-> FALSE, start_date |-> <<MinusDays(t, WindowDays(tag))>>]
    ELSE [raised |-> FALSE, start_date |-> <<>>]

\* Variant of ResolveRange: the from_date default is stored before the text
\* is parsed, so also by a run that strptime then aborts.
ResolveRangeStoringFirst ==
    /\ pc = "resolve"
    /\ graph_range' = GraphRange(args, preferences)
    /\ IF Len(args.from_date) > 0 /\ args.set_default
       THEN /\ preferences' =
                 SetPreference(preferences, "default_range",
                               FromPrefix \o args.from_date)
            /\ latest' = Latest(latest, "default_range",
                                FromPrefix \o args.from_date)
            /\ out' = Append(out, <<"DefaultFrom", 0>>)
       ELSE UNCHANGED <<preferences, latest, out>>
    /\ LET r == ResolveStart(args, graph_range', today)
       IN IF r.raised
          THEN /\ exc' = "strptime in main"
               /\ pc' = "exit"
               /\ UNCHANGED start_date
          ELSE /\ start_date' = r.start_date
               /\ pc' = "persist"
               /\ UNCHANGED exc
    /\ UNCHANGED <<weights, args, today, date, series, graphed, trend,
                   written, before, ret, runs>>

\* main, lines 139-155: the range is resolved; an explicit --from-date is
\* stored as the default when --set-default is given (lines 143-145).
ResolveRange ==
    /\ pc = "resolve"
    /\ graph_range' = GraphRange(args, preferences)
    /\ LET r == ResolveStart(args, graph_range', today)
       IN IF r.raised
          THEN /\ exc' = "strptime in main"
               /\ pc' = "exit"
               /\ UNCHANGED <<preferences, latest, start_date, out>>
          ELSE /\ start_date' = r.start_date
               /\ pc' = "persist"
               /\ UNCHANGED exc
               /\ IF Len(args.from_date) > 0 /\ args.set_default
                  THEN /\ preferences' =
                            SetPreference(preferences, "default_range",
                                          FromPrefix \o args.from_date)
                       /\ latest' = Latest(latest, "default_range",
                                           FromPrefix \o args.from_date)
                       /\ out' = Append(out, <<"DefaultFrom", 0>>)
                  ELSE UNCHANGED <<preferences, latest, out>>
    /\ UNCHANGED <<weights, args, today, date, series, graphed, trend,
                   written, before, ret, runs>>

\* main, line 161: the test that guards the query.
ShouldQuery(a) == a.graph_only \/ Truthy(a.weight)

\* Variant of ShouldPersistTag: the tag is stored only by a run that also
\* queries.
ShouldPersistTagIfQuerying(a) ==
    a.set_default /\ Len(a.range) > 0 /\ ShouldQuery(a)

\* main, line 157: the test that guards storing the tag as the default.
ShouldPersistTag(a) == a.set_default /\ Len(a.range) > 0

\* main, lines 157-159.
PersistTag ==
    /\ pc = "persist"
    /\ IF ShouldPersistTag(args)
       THEN /\ preferences' =
                 SetPreference(preferences, "default_range", graph_range)
            /\ latest' = Latest(latest, "default_range", graph_range)
            /\ out' = Append(out, <<"DefaultTag", 0>>)
       ELSE UNCHANGED <<preferences, latest, out>>
    /\ pc' = "report"
    /\ UNCHANGED <<weights, args, today, date, graph_range, start_date,
                   series, graphed, trend, exc, written, before, ret, runs>>

\* main, lines 161-162: the series for the resolved start is read.
QueryStep ==
    /\ pc = "report"
    /\ ShouldQuery(args)
    /\ LET r == GetWeights(weights, start_date)
       IN IF r.raised
          THEN /\ exc' = "strptime in get_weights"
               /\ pc' = "exit"
               /\ UNCHANGED series
          ELSE /\ series' = r.series
               /\ pc' = "plot"
               /\ UNCHANGED exc
    /\ UNCHANGED <<weights, preferences, args, today, date, graph_range,
                   start_date, graphed, trend, out, written, before, ret,
                   latest, runs>>

\* main, lines 170-171: neither a weight nor --graph-only.
NoQuery ==
    /\ pc = "report"
    /\ ~ShouldQuery(args)
    /\ out' = IF ~args.set_default THEN Append(out, <<"NoAction", 0>>) ELSE out
    /\ pc' = "exit"
    /\ UNCHANGED <<weights, preferences, args, today, date, graph_range,
                   start_date, series, graphed, trend, exc, written, before,
                   ret, latest, runs>>

\* main, line 164: the test that guards generate_graph.
ShouldGraph(s) == Len(s) > 0

\* main, lines 164-169: the chart is drawn from a non-empty series.
GraphStep ==
    /\ pc = "plot"
    /\ IF ShouldGraph(series)
       THEN /\ graphed' = <<series>>
            /\ trend' = <<Trend(series)>>
            /\ out' = Append(out, <<"GraphSaved", 0>>)
       ELSE /\ out' = Append(out, <<"NoData", 0>>)
            /\ UNCHANGED <<graphed, trend>>
    /\ pc' = "exit"
    /\ UNCHANGED <<weights, preferences, args, today, date, graph_range,
                   start_date, series, exc, written, before, ret, latest, runs>>

\* The process ends; only the database file outlives it.
Exit ==
    /\ pc = "exit"
    /\ pc' = "idle"
    /\ args' = NoArgs
    /\ date' = <<>>
    /\ graph_range' = <<>>
    /\ start_date' = <<>>
    /\ series' = <<>>
    /\ graphed' = <<>>
    /\ trend' = <<>>
    /\ exc' = "none"
    /\ out' = <<>>
    /\ before' = NoTables
    /\ UNCHANGED <<weights, preferences, today, written, ret, latest, runs>>

Next ==
    \/ \E a \in Args, t \in Todays : ParseArgs(a, t)
    \/ ImportHistory
    \/ \E d \in DateArgs : LogStep(d)
    \/ SkipLog
    \/ ResolveRange
    \/ PersistTag
    \/ QueryStep
    \/ NoQuery
    \/ GraphStep
    \/ Exit

Spec == Init /\ [][Next]_vars

\* Values of default_range that main never stores itself.
TagOther == <<121, 116, 100>>                                   \* 'ytd'
FromPadded == IsoFormat(MkDate(2023, 1, 1))                     \* '2023-01-01'

OtherDefaults ==
    {TagOther, FromPrefix \o FromPadded, FromPrefix \o DateNoSuchDay}

\* set_preference('default_range', v) called on the module between runs of
\* main: any text may be stored.
SetDefaultCall(v) ==
    /\ pc = "idle"
    /\ runs < MaxRuns
    /\ runs' = runs + 1
    /\ preferences' = SetPreference(preferences, "default_range", v)
    /\ latest' = Latest(latest, "default_range", v)
    /\ UNCHANGED <<weights, args, today, written, before, pc, ret, locals>>

NextAnyDefault ==
    \/ Next
    \/ \E v \in OtherDefaults : SetDefaultCall(v)

\* Runs of main on a database whose default_range may hold any text.
SpecAnyDefault == Init /\ [][NextAnyDefault]_vars

\* ------------------------------------------- the functions called directly

MaxCalls == 5

\* The three weekly measurements of a falling weight, and the values
\* logged on them.
CallDates ==
    {IsoFormat(MkDate(2024, 1, 1)), IsoFormat(MkDate(2024, 1, 8)),
     IsoFormat(MkDate(2024, 1, 15))}

CallWeights == {180, 178, 176}

CallStarts == {<<>>, <<MkDate(2024, 1, 8)>>}

\* In a call made on the module, before holds the tables as the call found
\* them and out what the call printed.

\* log_weight(d, w) called on the module; what earlier reads returned is
\* out of date from here on.
LogWeightCall(d, w) ==
    /\ pc = "idle"
    /\ runs < MaxCalls
    /\ runs' = runs + 1
    /\ weights' = LogWeight(weights, d, w)
    /\ written' = Written(written, d, w)
    /\ start_date' = <<>>
    /\ series' = <<>>
    /\ graphed' = <<>>
    /\ trend' = <<>>
    /\ exc' = "none"
    /\ out' = <<>>
    /\ before' = [weights |-> weights, preferences |-> preferences]
    /\ UNCHANGED <<preferences, pc, args, today, date, graph_range, ret,
                   latest>>

\* import_historical_data() called on the module.
ImportCall ==
    /\ pc = "idle"
    /\ runs < MaxCalls
    /\ runs' = runs + 1
    /\ weights' = ImportRows(weights, Len(prev_weights))
    /\ written' = ImportHistoryOf(written, Len(prev_weights))
    /\ out' = <<<<"Imported", Len(prev_weights)>>>>
    /\ before' = [weights |-> weights, preferences |-> preferences]
    /\ start_date' = <<>>
    /\ series' = <<>>
    /\ graphed' = <<>>
    /\ trend' = <<>>
    /\ exc' = "none"
    /\ UNCHANGED <<preferences, pc, args, today, date, graph_range, ret,
                   latest>>

\* dates, weights = get_weights(sd) called on the module.
GetWeightsCall(sd) ==
    /\ pc = "idle"
    /\ runs < MaxCalls
    /\ runs' = runs + 1
    /\ start_date' = sd
    /\ LET r == GetWeights(weights, sd)
       IN /\ series' = r.series
          /\ exc' = IF r.raised THEN "strptime in get_weights" ELSE "none"
    /\ graphed' = <<>>
    /\ trend' = <<>>
    /\ out' = <<>>
    /\ before' = [weights |-> weights, preferences |-> preferences]
    /\ UNCHANGED <<weights, preferences, pc, args, today, date, graph_range,
                   ret, latest, written>>

\* generate_graph(dates, weights) called on what get_weights returned, by a
\* caller that checked the series is not empty as main does at line 164.
GenerateGraphCall ==
    /\ pc = "idle"
    /\ runs < MaxCalls
    /\ Len(series) > 0
    /\ runs' = runs + 1
    /\ graphed' = <<series>>
    /\ trend' = <<Trend(series)>>
    /\ out' = <<>>
    /\ before' = [weights |-> weights, preferences |-> preferences]
    /\ UNCHANGED <<weights, preferences, pc, args, today, date, graph_range,
                   start_date, series, ret, latest, exc, written>>

NextCalls ==
    \/ \E d \in CallDates, w \in CallWeights : LogWeightCall(d, w)
    \/ ImportCall
    \/ \E sd \in CallStarts : GetWeightsCall(sd)
    \/ GenerateGraphCall

\* log_weight, import_historical_data, get_weights and generate_graph called
\* on an empty database.
SpecCalls == Init /\ [][NextCalls]_vars

\* Keys, values and defaults the preference functions are called with:
\* texts, '' and None (both <<>>).
PrefKeys == {"default_range", "units"}

PrefValues == {Tag1m, TagAll, <<>>}

PrefDefaults == {<<>>, Tag6m}

\* set_preference(k, v) called on the module; it returns None.
SetPreferenceCall(k, v) ==
    /\ pc = "idle"
    /\ runs < MaxCalls
    /\ runs' = runs + 1
    /\ preferences' = SetPreference(preferences, k, v)
    /\ latest' = Latest(latest, k, v)
    /\ ret' = <<[call |-> "set_preference", key |-> k, arg |-> v,
                 value |-> <<>>]>>
    /\ before' = [weights |-> weights, preferences |-> preferences]
    /\ UNCHANGED <<weights, args, today, written, pc, locals>>

\* get_preference(k, d) called on the module.
GetPreferenceCall(k, d) ==
    /\ pc = "idle"
    /\ runs < MaxCalls
    /\ runs' = runs + 1
    /\ ret' = <<[call |-> "get_preference", key |-> k, arg |-> d,
                 value |-> GetPreference(preferences, k, d)]>>
    /\ before' = [weights |-> weights, preferences |-> preferences]
    /\ UNCHANGED <<weights, preferences, latest, args, today, written, pc,
                   locals>>

NextPrefCalls ==
    \/ \E k \in PrefKeys, v \in PrefValues : SetPreferenceCall(k, v)
    \/ \E k \in PrefKeys, d \in PrefDefaults : GetPreferenceCall(k, d)

\* set_preference and get_preference called on an empty database.
SpecPrefCalls == Init /\ [][NextPrefCalls]_vars

\* ------------------------------------------------------------ properties

\* The run is past the import test of line 130 and did not import.
PastDispatch ==
    pc \in {"resolve", "persist", "report", "plot", "exit"} /\ ~args.import_history

\* Calendar day a is before calendar day b.
DateLess(a, b) == ToOrdinal(a) < ToOrdinal(b)

\* The text parses as a date under strptime '%Y-%m-%d'.
Parses(s) == Len(Strptime(s)) = 1

\* The start a run without range arguments resolves on day t from the
\* preferences table as it stands.  No step of main before line 139 writes
\* the table, so this is what the next run computes at lines 139-155.
NextDefaultStart(t) == ResolveStart(NoArgs, GraphRange(NoArgs, preferences), t)

\* date d is on or after the resolved start (always, when there is none).
OnOrAfterStart(d) == Len(start_date) = 0 \/ ~DateLess(d, start_date[1])

\* C1: whatever log_weight and import_historical_data calls were made, the
\* weights table holds at most one row per date key, exactly the keys that
\* were written, each with the value of the latest write to it.
C1_UpsertLatestValue ==
    /\ \A r \in weights : \A q \in weights : r[1] = q[1] => r = q
    /\ \A r \in weights : r[1] \in DOMAIN written
    /\ \A k \in DOMAIN written : <<k, written[k][Len(written[k])]>> \in weights

\* C1 happens: a date written twice with different values, one row, the
\* second value.
C1_Witness ==
    \E k \in DOMAIN written :
        /\ Len(written[k]) = 2
        /\ written[k][1] # written[k][2]
        /\ {r \in weights : r[1] = k} = {<<k, written[k][2]>>}

\* C2: the dates get_weights returns are strictly ascending calendar days
\* (so no day twice), for every store log_weight can build from date texts
\* strptime accepts.
C2_QueryAscending ==
    pc = "plot" =>
        \A i \in 1..Len(series) : \A j \in 1..Len(series) :
            i < j => DateLess(series[i][1], series[j][1])

\* C3: get_weights(start_date) returns exactly the stored measurements whose
\* calendar day is on or after start_date (all of them for None), and the
\* TEXT comparison of the query agrees with the order of the days.
C3_QueryFilterExact ==
    pc = "plot" =>
        /\ \A i \in 1..Len(series) : OnOrAfterStart(series[i][1])
        /\ \A i \in 1..Len(series) : \E r \in weights :
               Parses(r[1]) /\ series[i] = <<Strptime(r[1])[1], r[2]>>
        /\ \A r \in weights :
               (Parses(r[1]) /\ OnOrAfterStart(Strptime(r[1])[1]))
                   => \E i \in 1..Len(series) :
                          series[i] = <<Strptime(r[1])[1], r[2]>>
        /\ \A r \in weights :
               (Parses(r[1]) /\ Len(start_date) = 1)
                   => (StrLess(r[1], IsoFormat(start_date[1]))
                          <=> DateLess(Strptime(r[1])[1], start_date[1]))

\* C4: a write whose date text is no calendar day is refused, so the weights
\* table never holds a row under such a key.
C4_MalformedDateRejected ==
    \A r \in weights : Parses(r[1])

\* C5: a run given a weight w (zero and negative included) without
\* --graph-only holds w under the chosen date once past the write, and goes
\* on to the query: it ends with a chart or with the no-data message.
C5_AnyWeightLogged ==
    (PastDispatch /\ Len(args.weight) = 1 /\ ~args.graph_only) =>
        /\ Len(date) > 0
        /\ <<date, args.weight[1]>> \in weights
        /\ (pc = "exit" /\ exc = "none")
               => \E i \in 1..Len(out) : out[i][1] \in {"GraphSaved", "NoData"}

\* C6: a run given a from_date F that parses, with --set-default and whatever
\* else, leaves the store such that the next run without range arguments
\* resolves its start to F.
C6_FromDateRoundTrip ==
    (pc = "exit" /\ ~args.import_history /\ args.set_default
        /\ Len(args.from_date) > 0 /\ Parses(args.from_date)) =>
        \A t \in Todays :
            NextDefaultStart(t) =
                [raised |-> FALSE, start_date |-> Strptime(args.from_date)]

\* C7: right after lines 139-155 the resolved start follows the priority
\* order: an explicit from_date wins; otherwise the tag is the explicit tag,
\* else the stored default_range, else 'all'; 'from:<d>' gives d; 1m, 6m and
\* 1y give today minus exactly 30, 180 and 365 days (2024-03-01 for 1m on
\* 2024-03-31); any other tag gives no lower bound.
C7_RangeResolution ==
    pc = "persist" =>
        IF Len(args.from_date) > 0
        THEN start_date = Strptime(args.from_date) /\ Len(start_date) = 1
        ELSE /\ IF Len(args.range) > 0 THEN graph_range = args.range
                ELSE IF \E r \in preferences : r[1] = "default_range"
                THEN <<"default_range", graph_range>> \in preferences
                ELSE graph_range = TagAll
             /\ IF StartsWith(graph_range, FromPrefix)
                THEN /\ Len(start_date) = 1
                     /\ start_date =
                            Strptime(SubSeq(graph_range, Len(FromPrefix) + 1,
                                            Len(graph_range)))
                ELSE IF graph_range \in {Tag1m, Tag6m, Tag1y}
                THEN /\ Len(start_date) = 1
                     /\ ToOrdinal(today) - ToOrdinal(start_date[1]) =
                            (IF graph_range = Tag1m THEN 30
                             ELSE IF graph_range = Tag6m THEN 180 ELSE 365)
                     /\ (graph_range = Tag1m /\ today = MkDate(2024, 3, 31))
                            => start_date[1] = MkDate(2024, 3, 1)
                ELSE Len(start_date) = 0

\* C7 happens: a run without range arguments resolves the stored default
\* '1m' on 2024-03-31 to 2024-03-01.
C7_Witness ==
    /\ pc = "persist"
    /\ Len(args.from_date) = 0
    /\ Len(args.range) = 0
    /\ <<"default_range", Tag1m>> \in preferences
    /\ today = MkDate(2024, 3, 31)
    /\ start_date = <<MkDate(2024, 3, 1)>>

\* The run was asked to make an explicit tag the default.
AsksTagDefault ==
    pc = "exit" /\ args.set_default /\ Len(args.range) > 0
        /\ Len(args.from_date) = 0

\* The stored default is the tag args.range, in one row, and a run without
\* range arguments resolves with it.
TagIsDefault ==
    /\ {r \in preferences : r[1] = "default_range"}
           = {<<"default_range", args.range>>}
    /\ \A t \in Todays : NextDefaultStart(t) = ResolveStart(NoArgs, args.range, t)

\* During a run without --set-default the preferences table is as the run
\* found it.
NoDefaultNoChange ==
    (pc # "idle" /\ ~args.set_default) => preferences = before.preferences

\* C8 as stated: every run given --set-default and an explicit tag without a
\* from_date ends with that tag as the default, which the next run without
\* range arguments resolves with; no run without --set-default changes the
\* preferences table.
C8_TagPersisted ==
    /\ AsksTagDefault => TagIsDefault
    /\ NoDefaultNoChange

\* C8 amended: the same, for the runs that are not given --import-history.
C8_TagPersistedUnlessImport ==
    /\ (AsksTagDefault /\ ~args.import_history) => TagIsDefault
    /\ NoDefaultNoChange

\* C8 happens: a run that neither logs nor graphs has made '6m' the default.
C8_Witness ==
    /\ AsksTagDefault
    /\ ~args.import_history
    /\ ~ShouldQuery(args)
    /\ args.range = Tag6m
    /\ before.preferences = {}
    /\ preferences = {<<"default_range", Tag6m>>}

\* C9: when the resolved start is after every logged day the query returns
\* an empty series, and generate_graph is never handed an empty series.
C9_EmptyRangeSafe ==
    /\ (pc = "plot" /\ Len(start_date) = 1
           /\ \A r \in weights :
                  Parses(r[1]) /\ DateLess(Strptime(r[1])[1], start_date[1]))
           => Len(series) = 0
    /\ Len(graphed) = 1 => Len(graphed[1]) > 0

\* C10: in a run that logs (d, w) and draws a chart, the series drawn holds
\* (d, w) whenever d is on or after the resolved start, and no other value
\* for d.
C10_WriteBeforeRead ==
    (Len(graphed) = 1 /\ Len(date) > 0 /\ Parses(date)
        /\ OnOrAfterStart(Strptime(date)[1])) =>
        /\ \E i \in 1..Len(graphed[1]) :
               graphed[1][i] = <<Strptime(date)[1], args.weight[1]>>
        /\ \A i \in 1..Len(graphed[1]) :
               graphed[1][i][1] = Strptime(date)[1]
                   => graphed[1][i][2] = args.weight[1]

\* The slope as generate_graph prints it at line 80, in hundredths ('.2f').
SlopeHundredths(t) ==
    (200 * t.slope.num + t.slope.den) \div (2 * t.slope.den)

\* The three weekly measurements 180, 178, 176 as rows and as the series.
FallingRows ==
    {<<IsoFormat(MkDate(2024, 1, 1)), 180>>,
     <<IsoFormat(MkDate(2024, 1, 8)), 178>>,
     <<IsoFormat(MkDate(2024, 1, 15)), 176>>}

FallingSeries ==
    <<<<MkDate(2024, 1, 1), 180>>, <<MkDate(2024, 1, 8), 178>>,
      <<MkDate(2024, 1, 15), 176>>>>

\* The unbounded query was made on the three measurements.
FallingQueried ==
    weights = FallingRows /\ Len(start_date) = 0 /\ Len(series) > 0

\* The trend line was fitted to that query's result.
FallingFitted == FallingQueried /\ Len(trend) = 1

\* C11 as stated: with 180, 178 and 176 logged on 2024-01-01, -08 and -15,
\* the unbounded query returns the three points in ascending date order, the
\* fitted slope is negative and about -0.57 a day, and total_change is -4.
C11_FallingSlopeAbout057 ==
    /\ FallingQueried => series = FallingSeries
    /\ FallingFitted =>
          /\ graphed = <<FallingSeries>>
          /\ trend[1].slope.num < 0
          /\ SlopeHundredths(trend[1]) = -57
          /\ trend[1].total_change = -4

\* C11 amended: the same, with the slope the least-squares line has on these
\* points: -2/7 of a unit a day, printed -0.29.
C11_FallingSlope ==
    /\ FallingQueried => series = FallingSeries
    /\ FallingFitted =>
          /\ graphed = <<FallingSeries>>
          /\ trend[1].slope = [num |-> -2, den |-> 7]
          /\ SlopeHundredths(trend[1]) = -29
          /\ trend[1].total_change = -4

\* C11 happens: the three measurements were logged, queried and fitted.
C11_Witness == FallingFitted /\ graphed = <<FallingSeries>>

\* The dates and the entries of the supplied mapping.
MappingDates == {prev_weights[i][1] : i \in 1..Len(prev_weights)}

MappingEntries == {prev_weights[i] : i \in 1..Len(prev_weights)}

\* The last thing printed is the report of an import.
ImportReported == Len(out) > 0 /\ out[Len(out)][1] = "Imported"

ProbeStarts ==
    {MkDate(2024, 1, 1), MkDate(2024, 2, 1), MkDate(2024, 3, 1),
     MkDate(2024, 3, 31), MkDate(2024, 4, 1)}

\* The set of dates of a returned series.
DatesOf(sq) == {sq[i][1] : i \in 1..Len(sq)}

\* C13: on every reachable weights table and for start dates d1 <= d2,
\* whenever get_weights(d2) returns, get_weights(d1) returns too and its
\* dates include those get_weights(d2) returned.
C13_RangeMonotone ==
    \A d1 \in ProbeStarts : \A d2 \in ProbeStarts :
        ~DateLess(d2, d1) =>
            LET q1 == GetWeights(weights, <<d1>>)
                q2 == GetWeights(weights, <<d2>>)
            IN ~q2.raised =>
                  /\ ~q1.raised
                  /\ DatesOf(q2.series) \subseteq DatesOf(q1.series)

\* The keys of a table.
Keys(table) == {r[1] : r \in table}

\* C14: no step removes a date key from the weights table, and the steps
\* that read leave both tables as they are: the query of get_weights (made
\* or skipped at line 161) and the get_preference of line 139, in a run that
\* does not store a from_date default at line 144.
C14_KeysKeptReadsPure ==
    [][/\ Keys(weights) \subseteq Keys(weights')
       /\ pc = "report" => (weights' = weights /\ preferences' = preferences)
       /\ pc = "resolve" =>
             /\ weights' = weights
             /\ ~(Len(args.from_date) > 0 /\ args.set_default)
                   => preferences' = preferences]_vars

\* C14 happens: a run found rows stored, wrote a row, read the default and
\* queried, and every date key it found is still there.
C14_Witness ==
    /\ pc = "exit"
    /\ Len(graphed) = 1
    /\ Len(args.range) = 0 /\ Len(args.from_date) = 0
    /\ before.weights # {}
    /\ weights # before.weights
    /\ Keys(before.weights) \subseteq Keys(weights)

\* C15: when generate_graph is given a series of exactly one point (d, v),
\* the fitted slope is 0, the one fitted value is v, and total_change is 0.
C15_SinglePointFlat ==
    (Len(graphed) = 1 /\ Len(graphed[1]) = 1) =>
        /\ Len(trend) = 1
        /\ trend[1].slope = Frac(0, 1)
        /\ trend[1].fitted = <<Frac(graphed[1][1][2], 1)>>
        /\ trend[1].total_change = 0

\* C15 happens: a chart was made of a single stored measurement.
C15_Witness ==
    /\ Len(graphed) = 1 /\ Len(graphed[1]) = 1
    /\ Len(trend) = 1
    /\ graphed[1][1][2] # 0

\* The last call made on the preference functions.
LastCall(name) == Len(ret) = 1 /\ ret[1].call = name

\* C16: the preferences table holds one row per key; get_preference(k, d)
\* returns d when k was never set and the value of the latest
\* set_preference(k, _) otherwise, without failing and without writing;
\* set_preference(k, v) leaves k with the one row (k, v) and the other keys
\* as they were, so that setting a pair already stored changes nothing.
C16_LatestOrDefault ==
    /\ \A r \in preferences : \A q \in preferences : r[1] = q[1] => r = q
    /\ LastCall("get_preference") =>
          /\ ret[1].value = (IF ret[1].key \in DOMAIN latest
                             THEN latest[ret[1].key] ELSE ret[1].arg)
          /\ exc = "none"
          /\ preferences = before.preferences
    /\ LastCall("set_preference") =>
          /\ <<ret[1].key, ret[1].arg>> \in preferences
          /\ \A r \in before.preferences :
                r[1] # ret[1].key => r \in preferences
          /\ \A r \in preferences :
                r[1] # ret[1].key => r \in before.preferences
          /\ <<ret[1].key, ret[1].arg>> \in before.preferences
                => preferences = before.preferences

\* C16 happens: a key that was set is looked up with a default other than
\* its value, while another key was never set.
C16_Witness ==
    /\ LastCall("get_preference")
    /\ ret[1].key \in DOMAIN latest
    /\ ret[1].value # ret[1].arg
    /\ \E k \in PrefKeys : k \notin DOMAIN latest

\* The text is a value of default_range the resolution of lines 139-155
\* accepts: a range tag, or 'from:' and a text that parses as a date.
WellFormedDefault(v) ==
    \/ v \in RangeChoices
    \/ StartsWith(v, FromPrefix) /\ Parses(SplitColon1(v))

\* C17: whatever runs of main were made, aborted ones included, the stored
\* default_range is absent or well formed, and the only run that fails with
\* a date-parse error while resolving its range is one given a from_date.
C17_StoredDefaultWellFormed ==
    /\ \A r \in preferences : r[1] = "default_range" /\ WellFormedDefault(r[2])
    /\ exc = "strptime in main" => Len(args.from_date) > 0

\* C17 happens: a run with no range arguments resolved a stored 'from:'
\* default to its date.
C17_Witness ==
    /\ pc = "exit"
    /\ exc = "none"
    /\ Len(args.range) = 0 /\ Len(args.from_date) = 0
    /\ StartsWith(graph_range, FromPrefix)
    /\ <<"default_range", graph_range>> \in preferences
    /\ start_date = Strptime(SplitColon1(graph_range))
    /\ Len(start_date) = 1

\* The run was given --graph-only and resolved its range.
GraphOnlyDone ==
    PastDispatch /\ args.graph_only /\ pc = "exit" /\ exc # "strptime in main"

\* C18: a run given --graph-only, with or without a weight and a date,
\* leaves the weights table as it found it, and once its range is resolved
\* it draws the chart of the stored rows the query selects for that range,
\* whenever there is such a row.
C18_GraphOnlyChartsStored ==
    /\ (PastDispatch /\ args.graph_only) => weights = before.weights
    /\ (GraphOnlyDone /\ Len(SelectWeights(before.weights, start_date)) > 0)
          => /\ Len(graphed) = 1
             /\ Len(graphed[1]) = Len(SelectWeights(before.weights, start_date))
             /\ \A i \in 1..Len(graphed[1]) : \E r \in before.weights :
                   Parses(r[1]) /\ graphed[1][i] = <<Strptime(r[1])[1], r[2]>>

\* C19: a run given --import-history does the import and nothing else: past
\* line 130 it is at its end, the weights table is what it found with the
\* mapping's entries put in, no weight was logged, the preferences table is
\* as it was found, nothing was queried or drawn, and the one thing printed
\* is the import report.
C19_ImportOnly ==
    (args.import_history /\ pc \notin {"idle", "dispatch"}) =>
        /\ pc = "exit"
        /\ exc = "none"
        /\ weights = MappingEntries \cup
                        {r \in before.weights : r[1] \notin MappingDates}
        /\ Len(date) = 0
        /\ preferences = before.preferences
        /\ Len(graph_range) = 0 /\ Len(start_date) = 0
        /\ Len(series) = 0 /\ Len(graphed) = 0 /\ Len(trend) = 0
        /\ Len(out) = 1 /\ out[1][1] = "Imported"

\* C19 happens: an import run that was also given a weight, --set-default,
\* a range, a from_date no calendar holds and --graph-only, on a database
\* that holds a default.
C19_Witness ==
    /\ args.import_history /\ pc = "exit"
    /\ Truthy(args.weight)
    /\ args.set_default /\ args.graph_only
    /\ Len(args.range) > 0
    /\ args.from_date = DateNoSuchDay
    /\ before.preferences # {}

====
